---- MODULE Spec2Model ----
(***************************************************************************)
(* Order-insensitive comparison and fingerprinting of entry lists          *)
(* (src/src/lib.rs).  An Entry is a Vec<u8>, an EntryList a Vec<Entry>.    *)
(* The sequential functions are one step each; the parallel functions run  *)
(* as fork-join phases whose tasks complete in any order.                  *)
(***************************************************************************)
EXTENDS Integers, Sequences, FiniteSets, TLC

VARIABLES
    fn,       \* the function called ("idle" before the call)
    x,        \* the first argument of the call
    y,        \* the second argument of an equality function (<<>> before
              \* the call, and in a call of a fingerprint function)
    pc,       \* where the call is: idle, map, sort, fold, compare, par_eq,
              \* chunks, done (returned) or panic
    side,     \* the argument the current map or sort phase works on
    v,        \* the vectors built from x and y (entries or their hashes)
    todo,     \* the indices (map) or chunks (par_eq) no worker has done yet
    tasks,    \* the ranges <<lo, hi>> the parallel sort has still to sort
    threads,  \* rayon::current_num_threads() as par_eq read it (0: not read)
    ok,       \* par_eq: no differing pair of chunks found so far
    acc,      \* the hasher of the final fold
    k,        \* the index of the next hash the final fold writes
    ret,      \* the boolean an equality function returned
    fp        \* the fingerprint a fingerprint function returned

vars == <<fn, x, y, pc, side, v, todo, tasks, threads, ok, acc, k, ret, fp>>

(***************************************************************************)
(* Bounds of the model.                                                    *)
(***************************************************************************)
\* longest EntryList passed to a function
MaxLen == 3
\* largest worker pool (rayon::current_num_threads())
MaxThreads == 4
\* width of a digest in bits (u64 and the 256-bit digests, narrowed)
DigestBits == 3

\* The entries the lists are made of: the empty entry, a one-byte entry and a
\* two-byte entry that extends it.
Entries == {<<>>, <<1>>, <<1, 2>>}

Collections == UNION {[1..n -> Entries] : n \in 0..MaxLen}

Modulus == 2 ^ DigestBits

(***************************************************************************)
(* Orders.  Vec<u8> and the byte arrays of the 256-bit digests compare     *)
(* lexicographically, u64 numerically.  Every digest is kept as its        *)
(* sequence of DigestBits binary digits; those of a u64 are written least  *)
(* significant first, so the two orders differ.                            *)
(***************************************************************************)
ToBytes(h) == [i \in 1..DigestBits |-> (h \div (2 ^ (DigestBits - i))) % 2]

ToU64(h) == [i \in 1..DigestBits |-> (h \div (2 ^ (i - 1))) % 2]

RECURSIVE U64Value(_)
U64Value(w) == IF w = <<>> THEN 0 ELSE w[1] + 2 * U64Value(Tail(w))

RECURSIVE BytesLess(_, _)
BytesLess(a, b) ==
    IF b = <<>> THEN FALSE
    ELSE IF a = <<>> THEN TRUE
    ELSE IF a[1] # b[1] THEN a[1] < b[1]
    ELSE BytesLess(Tail(a), Tail(b))

Less(ord, a, b) ==
    IF ord = "u64" THEN U64Value(a) < U64Value(b) ELSE BytesLess(a, b)

\* the order of the digests of a hash family
Ord(fam) == IF fam = "ahash" THEN "u64" ELSE "bytes"

(***************************************************************************)
(* sort_unstable: the slice in ascending order.  Equal elements are        *)
(* identical values here, so the result is the one sorted permutation.     *)
(***************************************************************************)
RECURSIVE Insert(_, _, _)
Insert(s, e, ord) ==
    IF s = <<>> THEN <<e>>
    ELSE IF Less(ord, e, s[1]) THEN <<e>> \o s
    ELSE <<s[1]>> \o Insert(Tail(s), e, ord)

\* (no sort at all)
SortUnstableNoSort(s, ord) == s

\* (a sort that keeps one of each value)
RECURSIVE SortUnstableDedup(_, _)
SortUnstableDedup(s, ord) ==
    IF s = <<>> THEN <<>>
    ELSE LET r == SortUnstableDedup(Tail(s), ord)
         IN  IF \E i \in 1..Len(r) : r[i] = s[1] THEN r ELSE Insert(r, s[1], ord)

RECURSIVE SortUnstable(_, _)
SortUnstable(s, ord) ==
    IF s = <<>> THEN <<>>
    ELSE Insert(SortUnstable(Tail(s), ord), s[1], ord)

(***************************************************************************)
(* The hash families.  Each is a deterministic function of the bytes fed   *)
(* to it with a fixed-width result; the width is DigestBits, so distinct   *)
(* inputs can collide.                                                     *)
(***************************************************************************)
\* AHasher::default(), Hasher::write, Hasher::write_u64, Hasher::finish
AHasherDefault == 1

RECURSIVE AHasherWrite(_, _)
AHasherWrite(h, bytes) ==
    IF bytes = <<>> THEN h
    ELSE AHasherWrite((5 * h + bytes[1] + 6) % Modulus, Tail(bytes))

AHasherWriteU64(h, elem) == (3 * h + U64Value(elem) + 3) % Modulus

AHasherFinish(h) == ToU64((3 * h + 1) % Modulus)

\* Sha256::new(), Digest::chain, Digest::finalize
Sha256New == 2

RECURSIVE Sha256Chain(_, _)
Sha256Chain(h, bytes) ==
    IF bytes = <<>> THEN h
    ELSE Sha256Chain((5 * h + bytes[1] + 3) % Modulus, Tail(bytes))

Sha256Finalize(h) == ToBytes((7 * h + 5) % Modulus)

\* blake3::Hasher::new(), Hasher::update, Hasher::finalize; Hash::as_bytes
Blake3New == 5

RECURSIVE Blake3Update(_, _)
Blake3Update(h, bytes) ==
    IF bytes = <<>> THEN h
    ELSE Blake3Update((7 * h + 3 * bytes[1] + 1) % Modulus, Tail(bytes))

Blake3Finalize(h) == ToBytes((5 * h + 6) % Modulus)

\* the digest of one entry
Digest(fam, e) ==
    IF fam = "ahash" THEN AHasherFinish(AHasherWrite(AHasherDefault, e))
    ELSE IF fam = "sha256" THEN Sha256Finalize(Sha256Chain(Sha256New, e))
    ELSE Blake3Finalize(Blake3Update(Blake3New, e))

\* the hasher the final fold starts from, one step of the fold, and its end
HasherNew(fam) ==
    IF fam = "ahash" THEN AHasherDefault
    ELSE IF fam = "sha256" THEN Sha256New ELSE Blake3New

FoldStepValue(fam, h, elem) ==
    IF fam = "ahash" THEN AHasherWriteU64(h, elem)
    ELSE IF fam = "sha256" THEN Sha256Chain(h, elem)
    ELSE Blake3Update(h, elem)

HasherFinish(fam, h) ==
    IF fam = "ahash" THEN AHasherFinish(h)
    ELSE IF fam = "sha256" THEN Sha256Finalize(h) ELSE Blake3Finalize(h)

(***************************************************************************)
(* The sequential functions.                                               *)
(***************************************************************************)
\* (a collect that loses the last entry)
MapCollectDropLast(list, fam) ==
    [i \in 1..(Len(list) - 1) |-> Digest(fam, list[i])]

\* x.into_iter().map(|e| digest(e)).collect::<Vec<_>>()
MapCollect(list, fam) == [i \in 1..Len(list) |-> Digest(fam, list[i])]

\* (the hashes left in input order)
sorted_hashes_unsorted(fam, list) == MapCollect(list, fam)

\* (the hashes collapsed to a set: duplicates dropped)
sorted_hashes_dedup(fam, list) ==
    SortUnstableDedup(MapCollect(list, fam), Ord(fam))

\* the closure sorted_hashes of the eq_by_* functions, and the first two
\* steps of the fingerprint functions
sorted_hashes(fam, list) == SortUnstable(MapCollect(list, fam), Ord(fam))

\* hashes.into_iter().fold(new, |hasher, elem| ...): one pass, first to last
RECURSIVE Fold(_, _, _)
Fold(fam, h, hashes) ==
    IF hashes = <<>> THEN h
    ELSE Fold(fam, FoldStepValue(fam, h, hashes[1]), Tail(hashes))

\* the hash of the (sorted) hash list
HashOfList(fam, hashes) == HasherFinish(fam, Fold(fam, HasherNew(fam), hashes))

eq_by_sorting_seq(a, b) == SortUnstable(a, "bytes") = SortUnstable(b, "bytes")

ahash_seq(a) == HashOfList("ahash", sorted_hashes("ahash", a))

eq_by_ahash_seq(a, b) == sorted_hashes("ahash", a) = sorted_hashes("ahash", b)

sha256_seq(a) == HashOfList("sha256", sorted_hashes("sha256", a))

eq_by_sha256_seq(a, b) == sorted_hashes("sha256", a) = sorted_hashes("sha256", b)

blake3_seq(a) == HashOfList("blake3", sorted_hashes("blake3", a))

eq_by_blake3_seq(a, b) == sorted_hashes("blake3", a) = sorted_hashes("blake3", b)

(***************************************************************************)
(* The parallel functions.  into_par_iter().map().collect() digests every  *)
(* entry as a task of its own and writes the digest to the entry's index;  *)
(* par_sort_unstable is a parallel quicksort whose two sides are sorted as *)
(* independent tasks; par_eq compares chunks as independent tasks.         *)
(***************************************************************************)
EqSeqFns == {"eq_by_sorting_seq", "eq_by_ahash_seq", "eq_by_sha256_seq",
             "eq_by_blake3_seq"}
EqHashParFns == {"eq_by_ahash_par", "eq_by_sha256_par", "eq_by_blake3_par"}
EqFns == EqSeqFns \cup EqHashParFns \cup {"eq_by_sorting_par"}
FpSeqFns == {"ahash_seq", "sha256_seq", "blake3_seq"}
FpParFns == {"ahash_par", "sha256_par", "blake3_par"}
FpFns == FpSeqFns \cup FpParFns

\* the hash family a function uses
Fam(f) ==
    IF f \in {"ahash_seq", "ahash_par", "eq_by_ahash_seq", "eq_by_ahash_par"}
    THEN "ahash"
    ELSE IF f \in {"sha256_seq", "sha256_par", "eq_by_sha256_seq",
                   "eq_by_sha256_par"}
    THEN "sha256"
    ELSE IF f = "eq_by_sorting_seq" \/ f = "eq_by_sorting_par" THEN "none"
    ELSE "blake3"

\* the order of the vector a function sorts
SortOrd(f) == IF Fam(f) = "none" THEN "bytes" ELSE Ord(Fam(f))

\* (a partition with the comparison the wrong way round)
PartitionReversed(s, lo, hi, ord) ==
    LET piv  == s[lo]
        rest == SubSeq(s, lo + 1, hi)
        gt   == SelectSeq(rest, LAMBDA e : Less(ord, piv, e))
        le   == SelectSeq(rest, LAMBDA e : ~Less(ord, piv, e))
    IN  [seq |-> SubSeq(s, 1, lo - 1) \o gt \o <<piv>> \o le
                 \o SubSeq(s, hi + 1, Len(s)),
         mid |-> lo + Len(gt)]

\* One partition step of the quicksort on s[lo..hi]: the elements below the
\* pivot s[lo], the pivot, the others.  mid is the pivot's final index.
Partition(s, lo, hi, ord) ==
    LET piv  == s[lo]
        rest == SubSeq(s, lo + 1, hi)
        lt   == SelectSeq(rest, LAMBDA e : Less(ord, e, piv))
        ge   == SelectSeq(rest, LAMBDA e : ~Less(ord, e, piv))
    IN  [seq |-> SubSeq(s, 1, lo - 1) \o lt \o <<piv>> \o ge
                 \o SubSeq(s, hi + 1, Len(s)),
         mid |-> lo + Len(lt)]

\* the ranges of at least two elements among those a partition leaves
SubTasks(lo, mid, hi) ==
    {r \in {<<lo, mid - 1>>, <<mid + 1, hi>>} : r[2] > r[1]}

\* the whole slice, when there is anything to sort
StartTasks(s) == IF Len(s) > 1 THEN {<<1, Len(s)>>} ELSE {}

\* par_eq: the chunk size, the number of chunks, and one chunk of a vector
ChunkSize(n, t) == n \div t

NumChunks(n, cs) == (n + cs - 1) \div cs

Chunk(s, c, cs) ==
    SubSeq(s, (c - 1) * cs + 1, IF c * cs < Len(s) THEN c * cs ELSE Len(s))

\* (the result of the chunk that finished last)
AllCombineLast(found, eq) == eq

\* Iterator::all over the chunk results: false once a pair differs

AllCombine(found, eq) == found /\ eq

(***************************************************************************)
(* The parallel functions as functions of their input: the same phases,    *)
(* each task run to its end before the next.                               *)
(***************************************************************************)
RECURSIVE QuickSort(_, _, _, _)
QuickSort(s, lo, hi, ord) ==
    IF hi <= lo THEN s
    ELSE LET p == Partition(s, lo, hi, ord)
         IN  QuickSort(QuickSort(p.seq, lo, p.mid - 1, ord), p.mid + 1, hi, ord)

par_sort_unstable(s, ord) == QuickSort(s, 1, Len(s), ord)

par_sorted_hashes(fam, list) == par_sort_unstable(MapCollect(list, fam), Ord(fam))

\* panics: par_chunks(0) is reached; value: what is returned otherwise
par_eq(xs, ys, t) ==
    LET cs == ChunkSize(Len(xs), t)
    IN  [panics |-> Len(xs) = Len(ys) /\ cs = 0,
         value  |-> /\ Len(xs) = Len(ys)
                    /\ cs > 0
                    /\ \A c \in 1..NumChunks(Len(xs), cs) :
                           Chunk(xs, c, cs) = Chunk(ys, c, cs)]

eq_by_sorting_par(a, b, t) ==
    par_eq(par_sort_unstable(a, "bytes"), par_sort_unstable(b, "bytes"), t)

ahash_par(a) == HashOfList("ahash", par_sorted_hashes("ahash", a))

eq_by_ahash_par(a, b) ==
    par_sorted_hashes("ahash", a) = par_sorted_hashes("ahash", b)

sha256_par(a) == HashOfList("sha256", par_sorted_hashes("sha256", a))

eq_by_sha256_par(a, b) ==
    par_sorted_hashes("sha256", a) = par_sorted_hashes("sha256", b)

blake3_par(a) == HashOfList("blake3", par_sorted_hashes("blake3", a))

eq_by_blake3_par(a, b) ==
    par_sorted_hashes("blake3", a) = par_sorted_hashes("blake3", b)

Init ==
    /\ fn = "idle"
    /\ x \in Collections
    /\ y = <<>>
    /\ pc = "idle"
    /\ side = "x"
    /\ v = [x |-> <<>>, y |-> <<>>]
    /\ todo = {}
    /\ tasks = {}
    /\ threads = 0
    /\ ok = TRUE
    /\ acc = 0
    /\ k = 0
    /\ ret = FALSE
    /\ fp = <<>>

(***************************************************************************)
(* Calls of the sequential functions: one step each.  An equality         *)
(* function is called on x and a second list b, kept in y; a fingerprint   *)
(* function is called on x.  v holds the vectors the function has built    *)
(* when it returns.                                                        *)
(***************************************************************************)
ReturnBool(f, b, vx, vy, r) ==
    /\ fn' = f
    /\ y' = b
    /\ v' = [x |-> vx, y |-> vy]
    /\ ret' = r
    /\ pc' = "done"
    /\ UNCHANGED <<x, side, todo, tasks, threads, ok, acc, k, fp>>

ReturnHash(f, vx, r) ==
    /\ fn' = f
    /\ v' = [x |-> vx, y |-> <<>>]
    /\ fp' = r
    /\ pc' = "done"
    /\ UNCHANGED <<x, y, side, todo, tasks, threads, ok, acc, k, ret>>

Call_eq_by_sorting_seq ==
    /\ pc = "idle"
    /\ \E b \in Collections :
        ReturnBool("eq_by_sorting_seq", b, SortUnstable(x, "bytes"),
                   SortUnstable(b, "bytes"), eq_by_sorting_seq(x, b))

Call_eq_by_ahash_seq ==
    /\ pc = "idle"
    /\ \E b \in Collections :
        ReturnBool("eq_by_ahash_seq", b, sorted_hashes("ahash", x),
                   sorted_hashes("ahash", b), eq_by_ahash_seq(x, b))

Call_eq_by_sha256_seq ==
    /\ pc = "idle"
    /\ \E b \in Collections :
        ReturnBool("eq_by_sha256_seq", b, sorted_hashes("sha256", x),
                   sorted_hashes("sha256", b), eq_by_sha256_seq(x, b))

Call_eq_by_blake3_seq ==
    /\ pc = "idle"
    /\ \E b \in Collections :
        ReturnBool("eq_by_blake3_seq", b, sorted_hashes("blake3", x),
                   sorted_hashes("blake3", b), eq_by_blake3_seq(x, b))

Call_ahash_seq ==
    /\ pc = "idle"
    /\ ReturnHash("ahash_seq", sorted_hashes("ahash", x), ahash_seq(x))

Call_sha256_seq ==
    /\ pc = "idle"
    /\ ReturnHash("sha256_seq", sorted_hashes("sha256", x), sha256_seq(x))

Call_blake3_seq ==
    /\ pc = "idle"
    /\ ReturnHash("blake3_seq", sorted_hashes("blake3", x), blake3_seq(x))

(***************************************************************************)
(* Calls of the parallel functions: the call starts the first phase.       *)
(***************************************************************************)
StartMap(f, b) ==
    /\ fn' = f
    /\ y' = b
    /\ side' = "x"
    /\ v' = [x |-> <<>>, y |-> <<>>]
    /\ todo' = 1..Len(x)
    /\ pc' = "map"
    /\ UNCHANGED <<x, tasks, threads, ok, acc, k, ret, fp>>

Call_eq_by_sorting_par ==
    /\ pc = "idle"
    /\ \E b \in Collections :
        /\ y' = b
        /\ v' = [x |-> x, y |-> b]
    /\ fn' = "eq_by_sorting_par"
    /\ side' = "x"
    /\ tasks' = StartTasks(x)
    /\ pc' = "sort"
    /\ UNCHANGED <<x, todo, threads, ok, acc, k, ret, fp>>

Call_ahash_par ==
    /\ pc = "idle"
    /\ StartMap("ahash_par", <<>>)

Call_sha256_par ==
    /\ pc = "idle"
    /\ StartMap("sha256_par", <<>>)

Call_blake3_par ==
    /\ pc = "idle"
    /\ StartMap("blake3_par", <<>>)

Call_eq_by_ahash_par ==
    /\ pc = "idle"
    /\ \E b \in Collections : StartMap("eq_by_ahash_par", b)

Call_eq_by_sha256_par ==
    /\ pc = "idle"
    /\ \E b \in Collections : StartMap("eq_by_sha256_par", b)

Call_eq_by_blake3_par ==
    /\ pc = "idle"
    /\ \E b \in Collections : StartMap("eq_by_blake3_par", b)

\* the list the current phase works on
Arg == IF side = "x" THEN x ELSE y

\* a worker digests one entry and writes the digest to the entry's index
MapStep ==
    /\ pc = "map"
    /\ \E i \in todo :
        /\ v' = [v EXCEPT ![side] = (i :> Digest(Fam(fn), Arg[i])) @@ @]
        /\ todo' = todo \ {i}
    /\ UNCHANGED <<fn, x, y, pc, side, tasks, threads, ok, acc, k, ret, fp>>

\* collect() returns once every entry is digested; the sort starts
MapJoin ==
    /\ pc = "map"
    /\ todo = {}
    /\ v' = [v EXCEPT ![side] = [i \in 1..Len(Arg) |-> v[side][i]]]
    /\ tasks' = StartTasks(Arg)
    /\ pc' = "sort"
    /\ UNCHANGED <<fn, x, y, side, todo, threads, ok, acc, k, ret, fp>>

\* a worker partitions one pending range and leaves its two sides as tasks
SortStep ==
    /\ pc = "sort"
    /\ \E t \in tasks :
        LET p == Partition(v[side], t[1], t[2], SortOrd(fn))
        IN  /\ v' = [v EXCEPT ![side] = p.seq]
            /\ tasks' = (tasks \ {t}) \cup SubTasks(t[1], p.mid, t[2])
    /\ UNCHANGED <<fn, x, y, pc, side, todo, threads, ok, acc, k, ret, fp>>

\* the sort of a fingerprint function returns: the final fold starts
SortJoinFold ==
    /\ pc = "sort"
    /\ tasks = {}
    /\ fn \in FpParFns
    /\ acc' = HasherNew(Fam(fn))
    /\ k' = 1
    /\ pc' = "fold"
    /\ UNCHANGED <<fn, x, y, side, v, todo, tasks, threads, ok, ret, fp>>

\* the sort of x returns in an equality function: y is next
SortJoinX ==
    /\ pc = "sort"
    /\ tasks = {}
    /\ fn \in EqFns
    /\ side = "x"
    /\ side' = "y"
    /\ IF fn = "eq_by_sorting_par"
       THEN /\ tasks' = StartTasks(y)
            /\ UNCHANGED <<pc, todo>>
       ELSE /\ todo' = 1..Len(y)
            /\ pc' = "map"
            /\ UNCHANGED tasks
    /\ UNCHANGED <<fn, x, y, v, threads, ok, acc, k, ret, fp>>

\* the sort of y returns in an equality function: the comparison is next
SortJoinY ==
    /\ pc = "sort"
    /\ tasks = {}
    /\ fn \in EqFns
    /\ side = "y"
    /\ pc' = IF fn = "eq_by_sorting_par" THEN "par_eq" ELSE "compare"
    /\ UNCHANGED <<fn, x, y, side, v, todo, tasks, threads, ok, acc, k, ret, fp>>

\* sorted_hashes(x) == sorted_hashes(y)
Compare ==
    /\ pc = "compare"
    /\ ret' = (v.x = v.y)
    /\ pc' = "done"
    /\ UNCHANGED <<fn, x, y, side, v, todo, tasks, threads, ok, acc, k, fp>>

\* par_eq up to the chunked comparison: the chunk size is computed from the
\* pool size, unequal lengths return false, par_chunks(0) panics
ParEq ==
    /\ pc = "par_eq"
    /\ \E t \in 1..MaxThreads :
        LET cs == ChunkSize(Len(v.x), t)
        IN  /\ threads' = t
            /\ IF Len(v.x) # Len(v.y)
               THEN /\ ret' = FALSE
                    /\ pc' = "done"
                    /\ UNCHANGED <<todo, ok>>
               ELSE IF cs = 0
               THEN /\ pc' = "panic"
                    /\ UNCHANGED <<todo, ok, ret>>
               ELSE /\ todo' = 1..NumChunks(Len(v.x), cs)
                    /\ ok' = TRUE
                    /\ pc' = "chunks"
                    /\ UNCHANGED ret
    /\ UNCHANGED <<fn, x, y, side, v, tasks, acc, k, fp>>

\* a worker compares one pair of chunks (those in flight when a differing
\* pair is found may still finish)
ChunkStep ==
    /\ pc = "chunks"
    /\ \E c \in todo :
        LET cs == ChunkSize(Len(v.x), threads)
        IN  /\ ok' = AllCombine(ok, Chunk(v.x, c, cs) = Chunk(v.y, c, cs))
            /\ todo' = todo \ {c}
    /\ UNCHANGED <<fn, x, y, pc, side, v, tasks, threads, acc, k, ret, fp>>

\* all() returns: every pair compared, or a differing pair found
ChunkJoin ==
    /\ pc = "chunks"
    /\ todo = {} \/ ~ok
    /\ ret' = ok
    /\ pc' = "done"
    /\ UNCHANGED <<fn, x, y, side, v, todo, tasks, threads, ok, acc, k, fp>>

\* the final fold, sequential: the next hash in index order is written
FoldStep ==
    /\ pc = "fold"
    /\ k <= Len(v.x)
    /\ acc' = FoldStepValue(Fam(fn), acc, v.x[k])
    /\ k' = k + 1
    /\ UNCHANGED <<fn, x, y, pc, side, v, todo, tasks, threads, ok, ret, fp>>

FoldFinish ==
    /\ pc = "fold"
    /\ k > Len(v.x)
    /\ fp' = HasherFinish(Fam(fn), acc)
    /\ pc' = "done"
    /\ UNCHANGED <<fn, x, y, side, v, todo, tasks, threads, ok, acc, k, ret>>

Next ==
    \/ Call_eq_by_sorting_seq
    \/ Call_eq_by_sorting_par
    \/ Call_ahash_seq
    \/ Call_ahash_par
    \/ Call_eq_by_ahash_seq
    \/ Call_eq_by_ahash_par
    \/ Call_sha256_seq
    \/ Call_sha256_par
    \/ Call_eq_by_sha256_seq
    \/ Call_eq_by_sha256_par
    \/ Call_blake3_seq
    \/ Call_blake3_par
    \/ Call_eq_by_blake3_seq
    \/ Call_eq_by_blake3_par
    \/ MapStep
    \/ MapJoin
    \/ SortStep
    \/ SortJoinFold
    \/ SortJoinX
    \/ SortJoinY
    \/ Compare
    \/ ParEq
    \/ ChunkStep
    \/ ChunkJoin
    \/ FoldStep
    \/ FoldFinish

Spec == Init /\ [][Next]_vars

(***************************************************************************)
(* Vocabulary of the properties.                                           *)
(***************************************************************************)
Count(s, e) == Cardinality({i \in 1..Len(s) : s[i] = e})

\* a and b are equal as multisets of entries
IsPerm(a, b) ==
    /\ Len(a) = Len(b)
    /\ \A e \in Entries : Count(a, e) = Count(b, e)

Support(s) == {s[i] : i \in 1..Len(s)}

\* the digest of the family has no collision on the entries of S
DigestInjectiveOn(fam, S) ==
    \/ fam = "none"
    \/ \A e1, e2 \in S : Digest(fam, e1) = Digest(fam, e2) => e1 = e2

\* the final hash does not collide on the two hash lists
NoFinalCollision(fam, s, t) ==
    s # t => HashOfList(fam, s) # HashOfList(fam, t)

IsSorted(s, ord) == \A i \in 1..(Len(s) - 1) : ~Less(ord, s[i + 1], s[i])

\* the fingerprint function f applied to a
FpOf(f, a) ==
    CASE f = "ahash_seq" -> ahash_seq(a)
      [] f = "ahash_par" -> ahash_par(a)
      [] f = "sha256_seq" -> sha256_seq(a)
      [] f = "sha256_par" -> sha256_par(a)
      [] f = "blake3_seq" -> blake3_seq(a)
      [] f = "blake3_par" -> blake3_par(a)

\* the hash list f folds for a
FedOf(f, a) ==
    IF f \in FpParFns THEN par_sorted_hashes(Fam(f), a)
    ELSE sorted_hashes(Fam(f), a)

\* the sequential function of the same strategy as the parallel f
SeqFpOf(f, a) ==
    CASE f = "ahash_par" -> ahash_seq(a)
      [] f = "sha256_par" -> sha256_seq(a)
      [] f = "blake3_par" -> blake3_seq(a)

SeqEqOf(f, a, b) ==
    CASE f = "eq_by_ahash_par" -> eq_by_ahash_seq(a, b)
      [] f = "eq_by_sha256_par" -> eq_by_sha256_seq(a, b)
      [] f = "eq_by_blake3_par" -> eq_by_blake3_seq(a, b)

\* the parallel equality function f as a function of its input
ParEqOf(f, a, b) ==
    CASE f = "eq_by_ahash_par" -> eq_by_ahash_par(a, b)
      [] f = "eq_by_sha256_par" -> eq_by_sha256_par(a, b)
      [] f = "eq_by_blake3_par" -> eq_by_blake3_par(a, b)

Returned == pc = "done"

Ended == pc \in {"done", "panic"}

HashEqFns == EqFns \ {"eq_by_sorting_seq", "eq_by_sorting_par"}

\* neither the digest nor the final hash of fn collides on x and b
NoCollision(b) ==
    /\ DigestInjectiveOn(Fam(fn), Support(x) \cup Support(b))
    /\ fn \in FpFns => NoFinalCollision(Fam(fn), v.x, FedOf(fn, b))

\* b has the distinct entries of x, not as many times each
OtherMultiplicity(b) == Support(x) = Support(b) /\ ~IsPerm(x, b)

(***************************************************************************)
(* The properties.  An equality function has been called on (x, y); a      *)
(* fingerprint function has been called on x, and its result is set        *)
(* against the fingerprint of every list b.                                *)
(***************************************************************************)

\* C1: each equality function other than eq_by_sorting_par returns true on
\* a list and any permutation of it (duplicates, empty entries and the empty
\* list included).
C1_PermutationEqual ==
    (Returned /\ fn \in EqFns \ {"eq_by_sorting_par"} /\ IsPerm(x, y))
        => ret = TRUE

C1_Witness ==
    /\ Returned
    /\ fn = "eq_by_blake3_par"
    /\ Len(x) = MaxLen
    /\ IsPerm(x, y)
    /\ x # y
    /\ <<>> \in Support(x)
    /\ \E e \in Entries : Count(x, e) = 2
    /\ ret = TRUE

\* C2: every fingerprint function gives a list and each of its permutations
\* the same fingerprint, and the hash list it folds is the same for both.
C2_FingerprintPermutationInvariant ==
    (Returned /\ fn \in FpFns)
        => \A b \in Collections :
               IsPerm(x, b) => /\ fp = FpOf(fn, b)
                               /\ v.x = FedOf(fn, b)

C2_Witness ==
    /\ Returned
    /\ fn = "sha256_par"
    /\ Len(x) = MaxLen
    /\ v.x # MapCollect(x, "sha256")
    /\ \E b \in Collections :
           /\ IsPerm(x, b)
           /\ x # b
           /\ MapCollect(b, "sha256") # MapCollect(x, "sha256")
           /\ fp = FpOf(fn, b)

\* C3: whatever the pool size, eq_by_sorting_par returns, and returns what
\* eq_by_sorting_seq returns on the same pair.
C3_SortingParAgreesWithOracle ==
    (Ended /\ fn = "eq_by_sorting_par")
        => (Returned /\ ret = eq_by_sorting_seq(x, y))

\* C4: when the digest has no collision on the entries of x and y, each
\* hash-based equality function returns what the sorting oracle returns,
\* which is whether x and y are equal as multisets.
C4_HashEqAgreesWithOracle ==
    (Returned /\ fn \in HashEqFns /\ NoCollision(y))
        => /\ ret = eq_by_sorting_seq(x, y)
           /\ ret = IsPerm(x, y)

C4_Witness ==
    /\ Returned
    /\ fn = "eq_by_sha256_seq"
    /\ NoCollision(y)
    /\ Len(x) = MaxLen
    /\ OtherMultiplicity(y)
    /\ ret = FALSE

\* C5: when neither the digest nor the final hash collides, a fingerprint
\* function gives x and b the same fingerprint if and only if the sorting
\* oracle finds them equal.
C5_FingerprintConsistency ==
    (Returned /\ fn \in FpFns)
        => \A b \in Collections :
               NoCollision(b)
                   => ((fp = FpOf(fn, b)) <=> eq_by_sorting_seq(x, b))

C5_Witness ==
    /\ Returned
    /\ fn = "blake3_seq"
    /\ Len(x) = MaxLen
    /\ \E b \in Collections :
           /\ NoCollision(b)
           /\ Len(b) = MaxLen
           /\ ~eq_by_sorting_seq(x, b)
           /\ fp # FpOf(fn, b)

\* C6: every equality function returns true on ([], []) and false on
\* ([], [b""]); every fingerprint function returns a fingerprint of []
\* that differs from that of [b""].
C6_EmptyBoundary ==
    /\ (Ended /\ fn \in EqFns /\ x = <<>> /\ y = <<>>)
           => (Returned /\ ret = TRUE)
    /\ (Ended /\ fn \in EqFns /\ x = <<>> /\ y = << <<>> >>)
           => (Returned /\ ret = FALSE)
    /\ (Ended /\ fn \in FpFns /\ x = <<>>)
           => (Returned /\ fp # FpOf(fn, << <<>> >>))

\* C7: on two lists with the same distinct entries and different numbers of
\* occurrences, every equality function returns false and every fingerprint
\* function gives different fingerprints (no hash collision assumed); the
\* hash list compared or folded has one hash per entry.
C7_MultiplicityPreserved ==
    /\ (Ended /\ fn \in EqFns /\ OtherMultiplicity(y) /\ NoCollision(y))
           => /\ Returned
              /\ ret = FALSE
              /\ Len(v.x) = Len(x)
              /\ Len(v.y) = Len(y)
    /\ (Ended /\ fn \in FpFns)
           => /\ Returned
              /\ Len(v.x) = Len(x)
              /\ \A b \in Collections :
                     (OtherMultiplicity(b) /\ NoCollision(b))
                         => fp # FpOf(fn, b)

\* C8: a run of a parallel hash-based function returns what the sequential
\* function of the same hash family returns on the same input.
C8_SeqParEquivalent ==
    /\ (Returned /\ fn \in FpParFns) => fp = SeqFpOf(fn, x)
    /\ (Returned /\ fn \in EqHashParFns) => ret = SeqEqOf(fn, x, y)

C8_Witness ==
    /\ Returned
    /\ fn = "ahash_par"
    /\ Len(x) = MaxLen
    /\ v.x # MapCollect(x, "ahash")
    /\ fp = ahash_seq(x)

C10_NoPanic == pc # "panic"

====
